---------------------------- MODULE Spec2Model ----------------------------
(***************************************************************************)
(* Model of the land register extract service (server.py): the /templates  *)
(* handler (LandRegisterTemplates.get) and the /print handler              *)
(* (LandRegisterExtract.post).                                             *)
(*                                                                         *)
(* Text is modelled as a sequence of pieces: a piece is a single character *)
(* wherever the code looks inside the text (split(","), float(), lower()), *)
(* and a whole word where the code only copies or compares it.  A Python   *)
(* dict is a sequence of <<key, value>> pairs in insertion order.          *)
(***************************************************************************)
EXTENDS Integers, Sequences, FiniteSets

VARIABLES
    pc,          \* position of the call being served
    layersCfg,   \* LANDREG_PRINT_LAYERS of the process environment
    body,        \* the form pairs of the POST body, in order
    params,      \* the dict `params` of post()
    center,      \* <<2x, 2y>> of the extent's centre, << >> before it is known
    conn,        \* the database connection of the call: none, open, closed
    sql_result,  \* << >> for None, <<row>> for a row
    error,       \* exception that ended the call, "none" otherwise
    posted,      \* requests.post has been called
    forwarded,   \* the data handed to requests.post
    upstream,    \* << >>, or <<r>>: status, headers and chunk count of the engine's reply
    received,    \* chunks of the upstream body the service holds in memory
    sent,        \* chunks of the body passed on to the caller
    response,    \* << >>, or <<r>>: status and headers of the Response object
    text,        \* the capabilities text of the /templates call
    layouts      \* what the /templates call returns

vars == <<pc, layersCfg, body, params, center, conn, sql_result, error, posted,
          forwarded, upstream, received, sent, response, text, layouts>>

(***************************************************************************)
(* Bounds of the model.                                                    *)
(***************************************************************************)
MaxExtentFields == 5
MaxLayers == 2
MaxChunks == 2
MaxTemplates == 2

SeqUpTo(S, n) == UNION {[1..k -> S] : k \in 0..n}

(***************************************************************************)
(* Text operations.                                                        *)
(***************************************************************************)
Comma == ","

RECURSIVE FirstComma(_, _)
FirstComma(s, i) ==
    IF i > Len(s) THEN 0
    ELSE IF s[i] = Comma THEN i
    ELSE FirstComma(s, i + 1)

\* str.split(","): always at least one field, empty fields kept
RECURSIVE Split(_)
Split(s) ==
    LET i == FirstComma(s, 1)
    IN  IF i = 0 THEN <<s>>
        ELSE <<SubSeq(s, 1, i - 1)>> \o Split(SubSeq(s, i + 1, Len(s)))

\* ",".join(list)
RECURSIVE Join(_)
Join(list) ==
    IF list = << >> THEN << >>
    ELSE IF Len(list) = 1 THEN list[1]
    ELSE list[1] \o <<Comma>> \o Join(Tail(list))

Digits == {"0", "1", "2", "3", "4", "5", "6", "7", "8", "9"}

DigitVal(c) ==
    CASE c = "0" -> 0 [] c = "1" -> 1 [] c = "2" -> 2 [] c = "3" -> 3
      [] c = "4" -> 4 [] c = "5" -> 5 [] c = "6" -> 6 [] c = "7" -> 7
      [] c = "8" -> 8 [] c = "9" -> 9

Unsigned(s) == IF s # << >> /\ s[1] \in {"-", "+"} THEN Tail(s) ELSE s

\* float(s) succeeds: over the pieces of the model (digits, sign, letters)
\* that is an optional sign followed by one or more digits
Floatable(s) ==
    /\ Unsigned(s) # << >>
    /\ \A i \in 1..Len(Unsigned(s)) : Unsigned(s)[i] \in Digits

RECURSIVE DigitsVal(_, _)
DigitsVal(s, acc) ==
    IF s = << >> THEN acc ELSE DigitsVal(Tail(s), 10 * acc + DigitVal(s[1]))

\* float(s), for Floatable(s)
Float(s) ==
    IF s[1] = "-" THEN 0 - DigitsVal(Unsigned(s), 0) ELSE DigitsVal(Unsigned(s), 0)

\* str.upper() on the parameter names of the model
Upper(k) ==
    CASE k \in {"extent", "Extent"} -> "EXTENT"
      [] k = "scale" -> "SCALE"
      [] k = "Rotation" -> "ROTATION"
      [] k = "grid_interval_x" -> "GRID_INTERVAL_X"
      [] k = "Grid_Interval_Y" -> "GRID_INTERVAL_Y"
      [] k = "layers" -> "LAYERS"
      [] k = "Opacities" -> "OPACITIES"
      [] k = "nfgeometer" -> "NFGEOMETER"
      [] k = "format" -> "FORMAT"
      [] k = "map0:EXTENT" -> "MAP0:EXTENT"
      [] OTHER -> k

LowerPiece(c) ==
    CASE c = "P" -> "p" [] c = "D" -> "d" [] c = "F" -> "f"
      [] c = "N" -> "n" [] c = "G" -> "g"
      [] OTHER -> c

\* str.lower()
Lower(s) == [i \in 1..Len(s) |-> LowerPiece(s[i])]

(***************************************************************************)
(* dict operations (insertion ordered).                                    *)
(***************************************************************************)
Has(d, k) == \E i \in 1..Len(d) : d[i][1] = k

Get(d, k) == d[CHOOSE i \in 1..Len(d) : d[i][1] = k][2]

\* d[k] = v: an existing key keeps its place
Set(d, k, v) ==
    IF Has(d, k)
    THEN [i \in 1..Len(d) |-> IF d[i][1] = k THEN <<k, v>> ELSE d[i]]
    ELSE Append(d, <<k, v>>)

\* del d[k]
Del(d, k) == SelectSeq(d, LAMBDA e : e[1] # k)

\* d.update(pairs), also dict(pairs) from the empty dict
RECURSIVE Update(_, _)
Update(d, pairs) ==
    IF pairs = << >> THEN d
    ELSE Update(Set(d, pairs[1][1], pairs[1][2]), Tail(pairs))

\* urlparse.parse_qsl: pairs with a blank value are dropped
parse_qsl(pairs) == SelectSeq(pairs, LAMBDA e : e[2] # << >>)

\* {k.upper(): v for k, v in params.items()}
RECURSIVE UpperKeys(_, _)
UpperKeys(d, acc) ==
    IF d = << >> THEN acc
    ELSE UpperKeys(Tail(d), Set(acc, Upper(d[1][1]), d[1][2]))


(***************************************************************************)
(* Configuration and constants of the handlers.                            *)
(***************************************************************************)
\* os.getenv("LANDREG_PROJECT", "grundbuch")
project == <<"grundbuch">>

DEFAULT_LANDREG_LAYOUT == <<"A4-Hoch">>

LayerName == <<"Grundstuecke">>

\* values of LANDREG_PRINT_LAYERS: the empty text, one layer, several layers
LayerConfigs == {Join([i \in 1..n |-> LayerName]) : n \in 0..MaxLayers}

Defaults ==
    << <<"SERVICE", <<"WMS">>>>, <<"VERSION", <<"1.3.0">>>>,
       <<"REQUEST", <<"GetPrint">>>>, <<"FORMAT", <<"P", "D", "F">>>> >>

Opacity == <<"2", "5", "5">>

(***************************************************************************)
(* LandRegisterExtract.post, step by step.                                 *)
(***************************************************************************)
\* params = defaults; params.update(post_params)
MergeParams(pairs) == Update(Defaults, Update(<< >>, parse_qsl(pairs)))

\* Normalize parameter keys to upper case
NormalizeKeys(d) == UpperKeys(d, << >>)

\* SetLayers with the caller's LAYERS kept when there is one
SetLayersUnlessGiven(d, cfg) ==
    LET withLayers == IF Has(d, "LAYERS") THEN d ELSE Set(d, "LAYERS", cfg)
        names == Split(Get(withLayers, "LAYERS"))
    IN  Set(withLayers, "OPACITIES", Join([i \in 1..Len(names) |-> Opacity]))

\* Set LAYERS and OPACITIES
SetLayers(d, cfg) ==
    LET withLayers == Set(d, "LAYERS", cfg)
        names == Split(Get(withLayers, "LAYERS"))
    IN  Set(withLayers, "OPACITIES", Join([i \in 1..Len(names) |-> Opacity]))

\* the exception of "Determine center of extent", "none" when there is none
ExtentError(d) ==
    IF ~Has(d, "EXTENT") THEN "KeyError"
    ELSE LET fields == Split(Get(d, "EXTENT"))
         IN  IF \E i \in 1..Len(fields) : ~Floatable(fields[i]) THEN "ValueError"
             ELSE IF Len(fields) < 4 THEN "IndexError"
             ELSE "none"

\* <<2x, 2y>> for x = 0.5 * (extent[0] + extent[2]), y = 0.5 * (extent[1] + extent[3])
Center(d) ==
    LET extent == [i \in 1..Len(Split(Get(d, "EXTENT"))) |->
                      Float(Split(Get(d, "EXTENT"))[i])]
    IN  <<extent[1] + extent[3], extent[2] + extent[4]>>

\* rows of the print_info table
Rows ==
    { [nfgeometer |-> <<"Muster">>, lieferdatum |-> <<"2019-05-01">>,
       anschrift |-> <<"Hauptgasse 1">>, kontakt |-> <<"032">>,
       gemeinde |-> <<"Olten">>] }

\* if sql_result: params[...] = sql_result[...]
MergeRow(d, result) ==
    IF result = << >> THEN d
    ELSE Set(Set(Set(Set(Set(d,
             "NFGEOMETER", result[1].nfgeometer),
             "LIEFERDATUM", result[1].lieferdatum),
             "ANSCHRIFT", result[1].anschrift),
             "KONTAKT", result[1].kontakt),
             "GEMEINDE", result[1].gemeinde)

\* Prefix without the del
PrefixKeepingOriginal(d, k, mapped) == Set(d, mapped, Get(d, k))

\* params["map0:K"] = params["K"]; del params["K"]
Prefix(d, k, mapped) == Del(Set(d, mapped, Get(d, k)), k)

PrefixIfPresent(d, k, mapped) == IF Has(d, k) THEN Prefix(d, k, mapped) ELSE d

\* the first of EXTENT, SCALE, ROTATION that "Prefix params" does not find
MissingForPrefix(d) ==
    IF ~Has(d, "EXTENT") THEN "EXTENT"
    ELSE IF ~Has(d, "SCALE") THEN "SCALE"
    ELSE IF ~Has(d, "ROTATION") THEN "ROTATION"
    ELSE "none"

\* params as the KeyError of a missing key leaves them
PrefixedUntilMissing(d) ==
    IF ~Has(d, "EXTENT") THEN d
    ELSE IF ~Has(d, "SCALE") THEN Prefix(d, "EXTENT", "map0:EXTENT")
    ELSE Prefix(Prefix(d, "EXTENT", "map0:EXTENT"), "SCALE", "map0:SCALE")

\* Prefix params with composer map name
PrefixParams(d) ==
    PrefixIfPresent(
        PrefixIfPresent(
            Prefix(Prefix(Prefix(d, "EXTENT", "map0:EXTENT"),
                          "SCALE", "map0:SCALE"),
                   "ROTATION", "map0:ROTATION"),
            "GRID_INTERVAL_X", "map0:GRID_INTERVAL_X"),
        "GRID_INTERVAL_Y", "map0:GRID_INTERVAL_Y")

\* header names compare without case (requests' CaseInsensitiveDict)
HeaderName(k) == IF k \in {"Content-Type", "content-type"} THEN "content-type" ELSE k

HasHeader(h, k) == \E i \in 1..Len(h) : HeaderName(h[i][1]) = HeaderName(k)

Header(h, k) == h[CHOOSE i \in 1..Len(h) : HeaderName(h[i][1]) = HeaderName(k)][2]

PdfType == <<"application/pdf">>

\* replies of the rendering engine
UpstreamStatuses == {200, 500}

UpstreamHeaders ==
    { << >>,
      << <<"Content-Type", PdfType>> >>,
      << <<"Content-Type", <<"application/pdf", ";", "charset=binary">>>> >>,
      << <<"Content-Type", <<"text/xml">>>> >> }

\* BuildResponse with the content type compared by its first piece only
BuildResponseByPrefix(req, d) ==
    LET ctype == Header(req.headers, "content-type")
        h1 == << <<"content-type", ctype>> >>
    IN  [status |-> req.status,
         headers |-> IF ctype[1] = PdfType[1]
                     THEN Set(h1, "content-disposition",
                              <<"attachment; filename=">> \o project \o <<".">>
                                  \o Lower(Get(d, "FORMAT")))
                     ELSE h1]

\* Response(..., status=req.status_code) and its headers
BuildResponse(req, d) ==
    LET ctype == Header(req.headers, "content-type")
        h1 == << <<"content-type", ctype>> >>
    IN  [status |-> req.status,
         headers |-> IF ctype = PdfType
                     THEN Set(h1, "content-disposition",
                              <<"attachment; filename=">> \o project \o <<".">>
                                  \o Lower(Get(d, "FORMAT")))
                     ELSE h1]

(***************************************************************************)
(* The POST bodies of the model.  A body is the concatenation of one       *)
(* choice per parameter.  GeometryBodies vary EXTENT, SCALE and ROTATION   *)
(* (absent, blank, either letter case, the same name twice in two cases,   *)
(* every EXTENT of up to MaxExtentFields fields); OptionBodies keep a good *)
(* geometry and vary the other parameters.                                 *)
(***************************************************************************)
ExtentFieldChoices == {<<"1", "0">>, <<"x">>}

ExtentValues == {Join(fs) : fs \in SeqUpTo(ExtentFieldChoices, MaxExtentFields)}

GoodExtent == <<"1", "0", ",", "1", "0", ",", "1", "0", ",", "1", "0">>

One(k, v) == << <<k, v>> >>

ExtentChoices ==
    {<< >>} \cup {One(k, v) : k \in {"EXTENT", "extent"}, v \in ExtentValues}

ScaleChoices ==
    { << >>, One("SCALE", <<"1", "0", "0", "0">>), One("scale", <<"5", "0", "0">>),
      One("SCALE", << >>),
      One("scale", <<"5", "0", "0">>) \o One("SCALE", <<"1", "0", "0", "0">>) }

RotationChoices == { << >>, One("ROTATION", <<"0">>), One("Rotation", <<"9", "0">>) }

GridXChoices ==
    { << >>, One("GRID_INTERVAL_X", <<"5">>), One("grid_interval_x", <<"7">>),
      One("GRID_INTERVAL_X", << >>) }

GridYChoices == { << >>, One("Grid_Interval_Y", <<"5">>) }

LayerChoices ==
    { << >>, One("layers", <<"Geheim">>), One("Opacities", <<"0">>),
      One("LAYERS", <<"Geheim", ",", "Intern">>) \o One("OPACITIES", <<"1">>) }

ParcelChoices == { << >>, One("nfgeometer", <<"Mallory">>) }

FormatChoices == { << >>, One("format", <<"P", "N", "G">>), One("FORMAT", <<"p", "d", "f">>) }

OtherChoices == { << >>, One("TEMPLATE", <<"A4-Hoch">>), One("map0:EXTENT", <<"9">>) }

GeometryBodies ==
    {e \o s \o r : e \in ExtentChoices, s \in ScaleChoices, r \in RotationChoices}

OptionBodies ==
    {One("EXTENT", GoodExtent) \o One("SCALE", <<"1", "0", "0", "0">>)
         \o One("ROTATION", <<"0">>) \o gx \o gy \o l \o p \o f \o o :
        gx \in GridXChoices, gy \in GridYChoices, l \in LayerChoices,
        p \in ParcelChoices, f \in FormatChoices, o \in OtherChoices}

Bodies == GeometryBodies \cup OptionBodies

(***************************************************************************)
(* The print call.                                                         *)
(***************************************************************************)
Init ==
    /\ pc = "idle"
    /\ layersCfg \in LayerConfigs
    /\ body = << >>
    /\ params = << >>
    /\ center = << >>
    /\ conn = "none"
    /\ sql_result = << >>
    /\ error = "none"
    /\ posted = FALSE
    /\ forwarded = << >>
    /\ upstream = << >>
    /\ received = 0
    /\ sent = 0
    /\ response = << >>
    /\ text = [wellFormed |-> FALSE, root |-> << >>]
    /\ layouts = << >>

\* post_params ... y = 0.5 * (extent[1] + extent[3])
Receive ==
    /\ pc = "idle"
    /\ \E b \in Bodies :
          LET d == SetLayers(NormalizeKeys(MergeParams(b)), layersCfg)
          IN  /\ body' = b
              /\ params' = d
              /\ error' = ExtentError(d)
              /\ IF ExtentError(d) = "none"
                 THEN pc' = "centered" /\ center' = Center(d)
                 ELSE pc' = "failed" /\ center' = << >>
    /\ UNCHANGED <<layersCfg, conn, sql_result, posted, forwarded, upstream,
                   received, sent, response, text, layouts>>

\* conn = self.db.connect()
Connect ==
    /\ pc = "centered"
    /\ \/ conn' = "open" /\ pc' = "connected" /\ UNCHANGED error
       \/ conn' = "none" /\ pc' = "failed" /\ error' = "OperationalError"
    /\ UNCHANGED <<layersCfg, body, params, center, sql_result, posted, forwarded,
                   upstream, received, sent, response, text, layouts>>

\* sql_result = conn.execute(sql, x=x, y=y).fetchone(); if sql_result: ...
Execute ==
    /\ pc = "connected"
    /\ \/ \E result \in {<< >>} \cup {<<r>> : r \in Rows} :
             /\ sql_result' = result
             /\ params' = MergeRow(params, result)
             /\ pc' = "queried"
             /\ UNCHANGED error
       \/ /\ pc' = "failed"
          /\ error' = "ProgrammingError"
          /\ UNCHANGED <<sql_result, params>>
    /\ UNCHANGED <<layersCfg, body, center, conn, posted, forwarded, upstream,
                   received, sent, response, text, layouts>>

\* conn.close()
Close ==
    /\ pc = "queried"
    /\ conn' = "closed"
    /\ pc' = "released"
    /\ UNCHANGED <<layersCfg, body, params, center, sql_result, error, posted,
                   forwarded, upstream, received, sent, response, text, layouts>>

\* Prefix params with composer map name
Rename ==
    /\ pc = "released"
    /\ IF MissingForPrefix(params) = "none"
       THEN params' = PrefixParams(params) /\ pc' = "renamed" /\ UNCHANGED error
       ELSE params' = PrefixedUntilMissing(params) /\ pc' = "failed"
            /\ error' = "KeyError"
    /\ UNCHANGED <<layersCfg, body, center, conn, sql_result, posted, forwarded,
                   upstream, received, sent, response, text, layouts>>

\* the status the caller sees when post() ends with an exception: post() catches
\* nothing and never calls abort(), and Flask answers an uncaught exception with 500
StatusOfException(e) == 500

\* the chunks of the reply held when requests.post(url, timeout=120, data=params)
\* returns: the call is made without stream=True, so requests reads the whole
\* body before it returns
ReceivedOnReturn(total) == total

\* req = requests.post(url, timeout=120, data=params)
Post ==
    /\ pc = "renamed"
    /\ posted' = TRUE
    /\ forwarded' = params
    /\ \/ \E st \in UpstreamStatuses, h \in UpstreamHeaders, n \in 0..MaxChunks :
             /\ upstream' = <<[status |-> st, headers |-> h, chunks |-> n]>>
             /\ received' = ReceivedOnReturn(n)
             /\ pc' = "replied"
             /\ UNCHANGED error
       \/ /\ pc' = "failed"
          /\ error' = "ConnectionError"
          /\ UNCHANGED <<upstream, received>>
    /\ UNCHANGED <<layersCfg, body, params, center, conn, sql_result, sent,
                   response, text, layouts>>

\* response = Response(stream_with_context(req.iter_content(...)), ...); return response
Respond ==
    /\ pc = "replied"
    /\ IF HasHeader(upstream[1].headers, "content-type")
       THEN response' = <<BuildResponse(upstream[1], params)>> /\ pc' = "streaming"
            /\ UNCHANGED error
       ELSE response' = << >> /\ pc' = "failed" /\ error' = "KeyError"
    /\ UNCHANGED <<layersCfg, body, params, center, conn, sql_result, posted,
                   forwarded, upstream, received, sent, text, layouts>>

\* one chunk of req.iter_content(chunk_size=1024) goes to the caller
Relay ==
    /\ pc = "streaming"
    /\ sent < received
    /\ sent' = sent + 1
    /\ UNCHANGED <<pc, layersCfg, body, params, center, conn, sql_result, error,
                   posted, forwarded, upstream, received, response, text, layouts>>

\* the iterator is exhausted
Finish ==
    /\ pc = "streaming"
    /\ sent = upstream[1].chunks
    /\ pc' = "done"
    /\ UNCHANGED <<layersCfg, body, params, center, conn, sql_result, error,
                   posted, forwarded, upstream, received, sent, response, text,
                   layouts>>

(***************************************************************************)
(* LandRegisterTemplates.get.  A capabilities text is either not           *)
(* well-formed, or a tree of elements: tag, attributes, child elements.    *)
(***************************************************************************)
Element(tag, attrs, kids) == [tag |-> tag, attrs |-> attrs, kids |-> kids]

\* Node.getElementsByTagName: the descendants with the tag, in document order
RECURSIVE ElementsIn(_, _)
ElementsIn(kids, tag) ==
    IF kids = << >> THEN << >>
    ELSE (IF kids[1].tag = tag THEN <<kids[1]>> ELSE << >>)
             \o ElementsIn(kids[1].kids, tag) \o ElementsIn(Tail(kids), tag)

getElementsByTagName(node, tag) == ElementsIn(node.kids, tag)

\* Element.getAttribute: the empty text for an attribute that is not there
getAttribute(node, a) == IF Has(node.attrs, a) THEN Get(node.attrs, a) ELSE << >>

\* IsDefault that marks every named template
IsDefaultWhenNamed(name) == name # << >>

\* "default": name == DEFAULT_LANDREG_LAYOUT
IsDefault(name) == name = DEFAULT_LANDREG_LAYOUT

\* entry = {...}, for a composerMap whose width and height float() accepts
Entry(name, composerMap) ==
    [name |-> name,
     map |-> [width |-> Float(getAttribute(composerMap, "width")),
              height |-> Float(getAttribute(composerMap, "height")),
              name |-> getAttribute(composerMap, "name")],
     default |-> IsDefault(name)]

\* the body of the for loop raises: no ComposerMap, or a width or height
\* float() rejects
EntryRaises(template) ==
    LET maps == getElementsByTagName(template, "ComposerMap")
    IN  \/ maps = << >>
        \/ ~Floatable(getAttribute(maps[1], "width"))
        \/ ~Floatable(getAttribute(maps[1], "height"))

\* for template in ...: layouts.append(entry); an exception ends the loop and
\* `except: pass` keeps what was appended
RECURSIVE AppendEntries(_, _)
AppendEntries(templates, acc) ==
    IF templates = << >> THEN acc
    ELSE IF EntryRaises(templates[1]) THEN acc
    ELSE AppendEntries(Tail(templates),
             Append(acc, Entry(getAttribute(templates[1], "name"),
                               getElementsByTagName(templates[1], "ComposerMap")[1])))

\* layouts = []; try: ... except: pass
ListTemplates(t) ==
    IF ~t.wellFormed THEN << >>
    ELSE LET capabilities == Element("#document", << >>, t.root)
             roots == getElementsByTagName(capabilities, "WMS_Capabilities")
         IN  IF roots = << >> THEN << >>
             ELSE LET caps == getElementsByTagName(roots[1], "Capability")
                  IN  IF caps = << >> THEN << >>
                      ELSE LET tpls == getElementsByTagName(caps[1], "ComposerTemplates")
                           IN  IF tpls = << >> THEN << >>
                               ELSE AppendEntries(
                                        getElementsByTagName(tpls[1], "ComposerTemplate"),
                                        << >>)

(***************************************************************************)
(* The capabilities texts of the model: every list of up to MaxTemplates   *)
(* ComposerTemplate elements at the expected place, each with or without a *)
(* name, with or without a ComposerMap, its width a number or not; and the *)
(* texts in which one level of the nesting is missing.                     *)
(***************************************************************************)
MapFrames ==
    { << >>,
      <<Element("ComposerMap",
                << <<"width", <<"1", "7", "1">>>>, <<"height", <<"2", "5", "8">>>>,
                   <<"name", <<"map0">>>> >>, << >>)>>,
      <<Element("ComposerMap",
                << <<"width", <<"x">>>>, <<"height", <<"2", "5", "8">>>>,
                   <<"name", <<"map0">>>> >>, << >>)>>,
      <<Element("ComposerMap",
                << <<"width", <<"3", "9", "0">>>>, <<"name", <<"A4-Hoch">>>> >>, << >>)>> }

TemplateNames == { << >>, One("name", <<"A4-Hoch">>), One("name", <<"A3-Quer">>) }

TemplateElements ==
    {Element("ComposerTemplate", n, m) : n \in TemplateNames, m \in MapFrames}

Nested(templates) ==
    <<Element("WMS_Capabilities", << >>,
        <<Element("Service", << >>, << >>),
          Element("Capability", << >>,
            <<Element("ComposerTemplates", << >>, templates)>>)>>)>>

OneTemplate ==
    <<Element("ComposerTemplate", One("name", <<"A4-Hoch">>),
        <<Element("ComposerMap",
                  << <<"width", <<"1", "7", "1">>>>, <<"height", <<"2", "5", "8">>>>,
                     <<"name", <<"map0">>>> >>, << >>)>>)>>

Incomplete ==
    { <<Element("ServiceExceptionReport", << >>, << >>)>>,
      <<Element("WMS_Capabilities", << >>, <<Element("Service", << >>, << >>)>>)>>,
      <<Element("WMS_Capabilities", << >>, <<Element("Capability", << >>, << >>)>>)>>,
      <<Element("WMS_Capabilities", << >>,
          <<Element("Service", << >>,
              <<Element("ComposerTemplates", << >>, OneTemplate)>>)>>)>> }

Texts ==
    {[wellFormed |-> FALSE, root |-> << >>]}
        \cup {[wellFormed |-> TRUE, root |-> r] : r \in Incomplete}
        \cup {[wellFormed |-> TRUE, root |-> Nested(ts)] :
                 ts \in SeqUpTo(TemplateElements, MaxTemplates)}

\* req = requests.get(url, params=params) ... return jsonify(layouts)
TemplatesGet ==
    /\ pc = "idle"
    /\ \/ \E t \in Texts :
             /\ text' = t
             /\ layouts' = ListTemplates(t)
             /\ pc' = "listed"
             /\ UNCHANGED error
       \/ /\ pc' = "fetch_failed"
          /\ error' = "ConnectionError"
          /\ UNCHANGED <<text, layouts>>
    /\ UNCHANGED <<layersCfg, body, params, center, conn, sql_result, posted,
                   forwarded, upstream, received, sent, response>>

Next ==
    \/ Receive \/ Connect \/ Execute \/ Close \/ Rename \/ Post \/ Respond
    \/ Relay \/ Finish \/ TemplatesGet

Spec == Init /\ [][Next]_vars

(***************************************************************************)
(* Properties of the print call.                                           *)
(***************************************************************************)
Ended == pc \in {"done", "failed"}

\* params after the merge and the upper-casing of the keys
Merged == NormalizeKeys(MergeParams(body))

ClientError(status) == status \in 400..499

\* the values the caller gave for parameter K, in any letter case
CallerValues(K) ==
    {body[i][2] : i \in {j \in 1..Len(body) : Upper(body[j][1]) = K /\ body[j][2] # << >>}}

\* C1: a connection that a print call has acquired is released when the call
\* ends, whichever way it ends: no ended call leaves its connection open.
C1_ConnectionReleased == Ended => conn # "open"

\* C2: a print call whose merged, upper-cased parameters lack EXTENT, SCALE or
\* ROTATION ends with MissingParameterError, which the caller sees as a client
\* error, and is never forwarded to the rendering engine.
C2_MissingParameterRejected ==
    (Ended /\ \E K \in {"EXTENT", "SCALE", "ROTATION"} : ~Has(Merged, K))
        => /\ error = "MissingParameterError"
           /\ ClientError(StatusOfException(error))
           /\ ~posted

FourFloats(v) ==
    /\ Len(Split(v)) = 4
    /\ \A i \in 1..Len(Split(v)) : Floatable(Split(v)[i])

\* a print call is under way or has ended
InPrintCall == pc \notin {"idle", "listed", "fetch_failed"}

\* C3: a print call whose EXTENT is not exactly four comma-separated floats
\* (too few fields, too many, or a field that is no number) is rejected (the
\* claim: with MalformedParameterError, a client error) before any spatial
\* lookup or upstream request is made.  Stated without the name of the error:
\* such a call acquires no connection, forwards nothing and ends only in failure.
C3_MalformedExtentRejected ==
    (InPrintCall /\ Has(Merged, "EXTENT") /\ ~FourFloats(Get(Merged, "EXTENT")))
        => /\ conn = "none"
           /\ ~posted
           /\ Ended => error # "none"

\* C6: the proxy passes the upstream body on in chunks as they arrive: as long
\* as no chunk has gone to the caller, the proxy does not hold the whole of an
\* upstream body of two or more chunks.
C6_RepliesBeforeBodyComplete ==
    (pc = "streaming" /\ upstream[1].chunks >= 2 /\ sent = 0)
        => received < upstream[1].chunks

BareKeys == {"EXTENT", "SCALE", "ROTATION", "GRID_INTERVAL_X", "GRID_INTERVAL_Y"}

Carries(req, mapped, K) == Has(req, mapped) /\ Get(req, mapped) \in CallerValues(K)

\* C7: every forwarded request holds map0:EXTENT, map0:SCALE and map0:ROTATION
\* with values the caller gave for them, holds map0:GRID_INTERVAL_X (_Y) exactly
\* when the caller gave a value for that grid interval, and holds none of the
\* bare keys EXTENT, SCALE, ROTATION, GRID_INTERVAL_X, GRID_INTERVAL_Y, in
\* whatever letter case the caller wrote the names.
C7_GeometryPrefixed ==
    posted =>
        /\ Carries(forwarded, "map0:EXTENT", "EXTENT")
        /\ Carries(forwarded, "map0:SCALE", "SCALE")
        /\ Carries(forwarded, "map0:ROTATION", "ROTATION")
        /\ Has(forwarded, "map0:GRID_INTERVAL_X") <=> CallerValues("GRID_INTERVAL_X") # {}
        /\ Has(forwarded, "map0:GRID_INTERVAL_Y") <=> CallerValues("GRID_INTERVAL_Y") # {}
        /\ Has(forwarded, "map0:GRID_INTERVAL_X")
               => Carries(forwarded, "map0:GRID_INTERVAL_X", "GRID_INTERVAL_X")
        /\ Has(forwarded, "map0:GRID_INTERVAL_Y")
               => Carries(forwarded, "map0:GRID_INTERVAL_Y", "GRID_INTERVAL_Y")
        /\ \A i \in 1..Len(forwarded) : forwarded[i][1] \notin BareKeys

\* a request was forwarded whose caller wrote SCALE twice in two letter cases and
\* EXTENT in lower case
C7_Witness ==
    /\ posted
    /\ Cardinality(CallerValues("SCALE")) = 2
    /\ Has(forwarded, "map0:SCALE")
    /\ \E i \in 1..Len(body) : body[i][1] = "extent"

\* a request with a lower-case grid interval was forwarded under the prefixed key
C7_GridWitness ==
    /\ posted
    /\ \E i \in 1..Len(body) : body[i][1] = "grid_interval_x"
    /\ Has(forwarded, "map0:GRID_INTERVAL_X")
    /\ ~Has(forwarded, "map0:GRID_INTERVAL_Y")

\* C8: in every forwarded request LAYERS is the configured layer list and
\* OPACITIES has as many comma-separated entries as LAYERS, each of them 255,
\* also when the caller sent LAYERS or OPACITIES of its own in any letter case.
C8_LayersAndOpacities ==
    posted =>
        /\ Has(forwarded, "LAYERS") /\ Get(forwarded, "LAYERS") = layersCfg
        /\ Has(forwarded, "OPACITIES")
        /\ Len(Split(Get(forwarded, "OPACITIES"))) = Len(Split(Get(forwarded, "LAYERS")))
        /\ \A i \in 1..Len(Split(Get(forwarded, "OPACITIES"))) :
               Split(Get(forwarded, "OPACITIES"))[i] = <<"2", "5", "5">>

\* a request was forwarded whose caller sent LAYERS and OPACITIES of its own,
\* with two layers configured
C8_Witness ==
    /\ posted
    /\ CallerValues("LAYERS") # {}
    /\ CallerValues("OPACITIES") # {}
    /\ Len(Split(layersCfg)) = 2

ParcelKeys == {"NFGEOMETER", "LIEFERDATUM", "ANSCHRIFT", "KONTAKT", "GEMEINDE"}

\* C9: a lookup without a row does not keep the request from being forwarded,
\* and the request is then forwarded without NFGEOMETER, LIEFERDATUM, ANSCHRIFT,
\* KONTAKT and GEMEINDE; with a row, all five are set from the row.
C9_ParcelFieldsFromLookupOnly ==
    posted =>
        IF sql_result = << >>
        THEN \A i \in 1..Len(forwarded) : forwarded[i][1] \notin ParcelKeys
        ELSE /\ \A K \in ParcelKeys : Has(forwarded, K)
             /\ Get(forwarded, "NFGEOMETER") = sql_result[1].nfgeometer
             /\ Get(forwarded, "LIEFERDATUM") = sql_result[1].lieferdatum
             /\ Get(forwarded, "ANSCHRIFT") = sql_result[1].anschrift
             /\ Get(forwarded, "KONTAKT") = sql_result[1].kontakt
             /\ Get(forwarded, "GEMEINDE") = sql_result[1].gemeinde

UpperPieces == {"P", "D", "F", "N", "G"}

\* C10: the response of a print call has the upstream status code and content
\* type unchanged, and has the content-disposition header
\* 'attachment; filename=<project>.<format>', format being the forwarded FORMAT
\* in lower case, if and only if the upstream content type is exactly
\* application/pdf.
C10_ResponseHeaders ==
    response # << >> =>
        LET r == response[1]
            up == upstream[1]
            ctype == up.headers[1][2]
            disposition == Get(r.headers, "content-disposition")
            format == SubSeq(disposition, 4, Len(disposition))
        IN  /\ r.status = up.status
            /\ Get(r.headers, "content-type") = ctype
            /\ Has(r.headers, "content-disposition") <=> ctype = <<"application/pdf">>
            /\ Has(r.headers, "content-disposition")
                   => /\ SubSeq(disposition, 1, 3) = <<"attachment; filename=", "grundbuch", ".">>
                      /\ format = Lower(Get(forwarded, "FORMAT"))
                      /\ \A i \in 1..Len(format) : format[i] \notin UpperPieces

\* a response to an upstream error reply of type application/pdf, for a caller
\* that asked for format PNG
C10_Witness ==
    /\ response # << >>
    /\ response[1].status = 500
    /\ Has(response[1].headers, "content-disposition")
    /\ Get(forwarded, "FORMAT") = <<"P", "N", "G">>

\* a response to a reply whose content type only starts with application/pdf
C10_OtherTypeWitness ==
    /\ response # << >>
    /\ Len(upstream[1].headers[1][2]) > 1
    /\ ~Has(response[1].headers, "content-disposition")

(***************************************************************************)
(* Properties of the template list.                                        *)
(***************************************************************************)
\* the children of a node with a tag
Children(node, tag) == SelectSeq(node.kids, LAMBDA k : k.tag = tag)

\* the ComposerTemplate elements at root -> Capability -> ComposerTemplates
TemplatesOf(t) ==
    Children(Children(Children(t.root[1], "Capability")[1], "ComposerTemplates")[1],
             "ComposerTemplate")

\* the nesting root -> Capability -> ComposerTemplates is there, and every
\* ComposerTemplate has its map frame
NestingPresent(t) ==
    /\ t.wellFormed
    /\ t.root[1].tag = "WMS_Capabilities"
    /\ Children(t.root[1], "Capability") # << >>
    /\ Children(Children(t.root[1], "Capability")[1], "ComposerTemplates") # << >>
    /\ \A i \in 1..Len(TemplatesOf(t)) :
           Children(TemplatesOf(t)[i], "ComposerMap") # << >>

\* C4: for a capabilities text that is not well-formed, or in which the nesting
\* is absent at some level (root, Capability, ComposerTemplates, or the map
\* frame of any one ComposerTemplate, also one that follows valid ones), the
\* template list is empty: never a part of the list.
C4_EmptyListWhenIncomplete ==
    (pc = "listed" /\ ~NestingPresent(text)) => layouts = << >>

AttributeOf(node, a) ==
    IF \E i \in 1..Len(node.attrs) : node.attrs[i][1] = a
    THEN node.attrs[CHOOSE i \in 1..Len(node.attrs) : node.attrs[i][1] = a][2]
    ELSE << >>

\* every ComposerTemplate has exactly one map frame, with a numeric width and height
WellFormedTemplates(t) ==
    /\ NestingPresent(t)
    /\ \A i \in 1..Len(TemplatesOf(t)) :
           LET frames == Children(TemplatesOf(t)[i], "ComposerMap")
           IN  /\ Len(frames) = 1
               /\ Floatable(AttributeOf(frames[1], "width"))
               /\ Floatable(AttributeOf(frames[1], "height"))

\* C5: for a well-formed capabilities text with N template elements the list
\* has exactly N descriptors, the i-th with the name, map width, map height and
\* map name of the i-th element, and marked default exactly when its name is
\* the configured default layout; so with template names that are unique, as
\* the data model has them, exactly one descriptor is marked default if a
\* template has that name, and none otherwise.
C5_OneDescriptorPerTemplate ==
    (pc = "listed" /\ WellFormedTemplates(text)) =>
        LET ts == TemplatesOf(text)
            marked == {i \in 1..Len(layouts) : layouts[i].default}
            named == {i \in 1..Len(ts) : AttributeOf(ts[i], "name") = <<"A4-Hoch">>}
            unique == \A i, j \in 1..Len(ts) :
                          AttributeOf(ts[i], "name") = AttributeOf(ts[j], "name") => i = j
        IN  /\ Len(layouts) = Len(ts)
            /\ \A i \in 1..Len(ts) :
                   LET frame == Children(ts[i], "ComposerMap")[1]
                   IN  /\ layouts[i].name = AttributeOf(ts[i], "name")
                       /\ layouts[i].map.width = Float(AttributeOf(frame, "width"))
                       /\ layouts[i].map.height = Float(AttributeOf(frame, "height"))
                       /\ layouts[i].map.name = AttributeOf(frame, "name")
            /\ marked = named
            /\ unique => Cardinality(marked) = (IF named # {} THEN 1 ELSE 0)

\* a list of two descriptors of differently named templates, the second one the
\* default
C5_Witness ==
    /\ pc = "listed"
    /\ WellFormedTemplates(text)
    /\ Len(layouts) = 2
    /\ ~layouts[1].default
    /\ layouts[2].default
    /\ layouts[1].map.width = 171
=============================================================================
